---- MODULE Spec2Model ----
(***************************************************************************)
(* Model of src/app.py: a Flask relay that keeps a per-session chat        *)
(* history (memory) and a per-session sliding rate window (rate_limit),    *)
(* and forwards the history to an upstream completion endpoint.            *)
(*                                                                         *)
(* The handlers run on server threads.  Each handler is cut at the points  *)
(* where another thread can observe or change the shared dictionaries:     *)
(* a dictionary lookup, a list mutation, a dictionary store, the upstream  *)
(* round trip.  SeqSpec is the program served by one thread (requests are   *)
(* handled one at a time, the clock runs); Spec interleaves the chat and   *)
(* reset requests of NThreads threads, all of them arriving within one     *)
(* tick of the clock.  NoVisionSpec is SeqSpec in a deployment whose        *)
(* MODEL_VISION is empty.  WsSpec is one thread serving the websocket      *)
(* handler, whose client may leave at any moment; AllSpec is one thread    *)
(* serving all four handlers, the websocket clients staying.               *)
(***************************************************************************)
EXTENDS Integers, Sequences, FiniteSets, TLC

\* ---------------------------------------------------------------- sizes
\* app.py sets MAX_TURNS = 12, MAX_REQ = 30, WINDOW = 60 (lines 41, 44, 45).
\* The model runs the same code with the three numbers scaled down.
MAX_TURNS == 2
MAX_REQ == 2
WINDOW == 2
\* last value of the clock (time.time() in whole ticks)
MaxTime == 2
\* server threads of the concurrent specification
NThreads == 2
\* lines an upstream stream delivers at most
MaxChunks == 2

Threads == 1..NThreads

\* session keys, in a fixed order
KeySeq == <<"default">>
Keys == {KeySeq[i] : i \in 1..Len(KeySeq)}

\* raw request fields, before .strip()
RawIds == {"", " default "}
RawTexts == {"", " ", "a"}
\* texts the upstream can answer with
Replies == {"r"}
\* what the upstream round trip can end in
Outcomes == {"ok", "timeout", "network", "http_error", "malformed"}
\* ws.receive(): the client went away, an empty frame, text that is not
\* JSON, JSON that is no object, a JSON object
Frames == {"closed", "empty", "invalid_json", "not_object", "object"}
\* the payload of a "data: " line of the upstream stream: the content of its
\* delta ("" when empty or null), or a line _groq_stream_sse's caller cannot
\* read (no JSON, no choices)
Chunks == {"r", " ", "", "malformed"}

VARIABLES
    GROQ_API_KEY,  \* TRUE iff the configured credential is non-empty
    MODEL_VISION,  \* the configured name of the vision model ("" when empty)
    memory,        \* dict: session key -> identity of its list object
    heap,          \* the list objects: identity -> sequence of turns
    rate_limit,    \* dict: session key -> list of admission timestamps
    clock,         \* time.time()
    thr,           \* per thread: the running handler's position and locals
    admitted,      \* history: admissions of a key in the trailing WINDOW
    sinceReset,    \* history: the same, restarted when the key is reset
    lastOp         \* history: "reset" iff the last thing done to the key was a reset
\* admitted, lastOp and the field old of a thread are recorded by the
\* one-thread specification only (the actions' parameter rec).

vars == <<GROQ_API_KEY, MODEL_VISION, memory, heap, rate_limit, clock, thr,
          admitted, sinceReset, lastOp>>

\* ---------------------------------------------------------------- values
Min(a, b) == IF a < b THEN a ELSE b
Max(a, b) == IF a > b THEN a ELSE b

\* l[-n:] for n > 0
LastN(l, n) == SubSeq(l, Max(1, Len(l) - n + 1), Len(l))
\* l[:-1]
AllButLast(l) == SubSeq(l, 1, Len(l) - 1)

\* str.strip() on the raw fields the model feeds in
Strip(s) == CASE s = " " -> "" [] s = " default " -> "default" [] OTHER -> s

\* `str(...).strip() or "default"`
SessionIdOrDefault(raw) == IF Strip(raw) = "" THEN "default" ELSE Strip(raw)

Turn(role, content) == [role |-> role, content |-> content]
NoTurn == Turn("none", "")
UserTurn(text) == Turn("user", text)
AssistantTurn(text) == Turn("assistant", text)

\* a message of the upstream payload
Message(role, content, image) == [role |-> role, content |-> content, image |-> image]
SystemMessage == Message("system", "SYSTEM_PROMPT", FALSE)
AsMessages(l) == [i \in 1..Len(l) |-> Message(l[i].role, l[i].content, FALSE)]

ChatMessages_NoSystem(l) == AsMessages(l)
\* chat / ws_chat: [system, *memory[session_id]]
ChatMessages(l) == <<SystemMessage>> \o AsMessages(l)

DefaultImageText == "Descrivi questa immagine."
ImageText(user_text) == IF user_text = "" THEN DefaultImageText ELSE user_text
ImageMessages_KeepsLast(l, user_text) ==
    <<SystemMessage>> \o AsMessages(l)
        \o <<Message("user", ImageText(user_text), TRUE)>>
\* chat_image: [system, *memory[session_id][:-1], {user: [text, image_url]}]
ImageMessages(l, user_text) ==
    <<SystemMessage>> \o AsMessages(AllButLast(l))
        \o <<Message("user", ImageText(user_text), TRUE)>>

ImageStages_AppendFirst == <<"append_get", "image_check", "call">>
\* chat_image after the rate limiter: the checks of the upload (lines
\* 215-223), then _append_user (lines 225-228), then the upstream call
ImageStages == <<"image_check", "append_get", "call">>
StageAfter(stage) ==
    ImageStages[1 + CHOOSE i \in 1..(Len(ImageStages) - 1) : ImageStages[i] = stage]

\* line 47
MAX_IMAGE_BYTES == 5 * 1024 * 1024
\* uploads: len(img_bytes) and the declared type
ImageSizes == {MAX_IMAGE_BYTES, MAX_IMAGE_BYTES + 1}
\* (werkzeug hands mimetype over in lower case: .lower() changes nothing)
MimeTypes == {"image/png", "image/gif"}
\* line 216: len(img_bytes) > MAX_IMAGE_BYTES
TooLarge(size) == size > MAX_IMAGE_BYTES
\* line 221: mime not in ("image/jpeg", "image/png", "image/webp")
Unsupported(mime) == mime \notin {"image/jpeg", "image/png", "image/webp"}

TrimmedList_NoTrim(l) == l
TrimmedList_Head(l) == SubSeq(l, 1, Min(Len(l), MAX_TURNS))
\* _trim_history: memory[session_id][-MAX_TURNS:]
TrimmedList(l) == LastN(l, MAX_TURNS)

PurgedHits_None(hits, now) == hits
PurgedHits_Inclusive(hits, now) == SelectSeq(hits, LAMBDA x : now - x <= WINDOW)
\* _apply_rate_limit: [t for t in hits if now - t < WINDOW]
PurgedHits(hits, now) == SelectSeq(hits, LAMBDA x : now - x < WINDOW)
RateDenied_OneMore(hits) == Len(hits) > MAX_REQ
\* _apply_rate_limit: len(hits) >= MAX_REQ
RateDenied(hits) == Len(hits) >= MAX_REQ

\* an event sent on the websocket: {"type": ..., "token": ...}
Event(type, token) == [type |-> type, token |-> token]
\* the tokens among the events, in the order sent
TokensOf(events) ==
    LET toks == SelectSeq(events, LAMBDA e : e.type = "token")
    IN [i \in 1..Len(toks) |-> toks[i].token]

\* lines 321-322: the content of a stream line's delta; a line that cannot
\* be read raises inside the inner try and is skipped like an empty delta
DeltaOf(chunk) == IF chunk = "malformed" THEN "" ELSE chunk

RECURSIVE Join(_)
\* "".join(full)
Join(full) == IF full = <<>> THEN "" ELSE Head(full) \o Join(Tail(full))
RECURSIVE LStrip(_)
RECURSIVE RStrip(_)
\* .strip() of the joined text, on the list: each delta of Chunks is either
\* one blank or free of blanks, so the blanks stripped from the text are
\* the blank deltas at the two ends of the list
LStrip(full) == IF full # <<>> /\ Head(full) = " " THEN LStrip(Tail(full)) ELSE full
RStrip(full) ==
    IF full # <<>> /\ full[Len(full)] = " "
    THEN RStrip(SubSeq(full, 1, Len(full) - 1)) ELSE full
JoinedReply_First(full) == IF full = <<>> THEN "" ELSE Join(RStrip(LStrip(<<Head(full)>>)))
\* line 329: "".join(full).strip()
JoinedReply(full) == Join(RStrip(LStrip(full)))

\* ---------------------------------------------------------------- dictionaries
\* dict.get(k, [])
DictGet(d, k) == IF k \in DOMAIN d THEN d[k] ELSE <<>>
\* d[k] = v
DictSet(d, k, v) == [x \in DOMAIN d \cup {k} |-> IF x = k THEN v ELSE d[x]]
\* d.pop(k, None)
DictPop(d, k) == [x \in DOMAIN d \ {k} |-> d[x]]

\* the stored history of key k ("<<>>" when the key has none)
History(k) == IF k \in DOMAIN memory THEN heap[memory[k]] ELSE <<>>

\* memory[k] on the defaultdict(list): a missing key is created with a new
\* empty list.  Gives the dictionary, the heap and the list's identity.
MemGet(mem, hp, k) ==
    IF k \in DOMAIN mem
    THEN [memory |-> mem, heap |-> hp, id |-> mem[k]]
    ELSE [memory |-> DictSet(mem, k, Len(hp) + 1),
          heap |-> Append(hp, <<>>), id |-> Len(hp) + 1]

\* List identities mean nothing beyond equality: after each step the live
\* lists are renumbered in the order memory and the threads refer to them,
\* and the unreferenced ones are dropped.
Roots(mem, th) ==
    [i \in 1..(Len(KeySeq) + NThreads) |->
        IF i <= Len(KeySeq)
        THEN (IF KeySeq[i] \in DOMAIN mem THEN mem[KeySeq[i]] ELSE 0)
        ELSE th[i - Len(KeySeq)].ref]
LiveIds(mem, th) == {Roots(mem, th)[i] : i \in DOMAIN Roots(mem, th)} \ {0}
Store(mem, th, hp) ==
    LET R == Roots(mem, th)
        first == [o \in LiveIds(mem, th) |->
                    CHOOSE i \in DOMAIN R : R[i] = o /\ \A j \in 1..(i - 1) : R[j] # o]
        new == [o \in LiveIds(mem, th) \cup {0} |->
                    IF o = 0 THEN 0
                    ELSE Cardinality({p \in LiveIds(mem, th) : first[p] <= first[o]})]
    IN /\ memory' = [k \in DOMAIN mem |-> new[mem[k]]]
       /\ thr' = [t \in Threads |-> [th[t] EXCEPT !.ref = new[th[t].ref]]]
       /\ heap' = [n \in 1..Cardinality(LiveIds(mem, th)) |->
                     hp[CHOOSE o \in LiveIds(mem, th) : new[o] = n]]

\* ---------------------------------------------------------------- threads
Idle ==
    [pc |-> "idle", handler |-> "none", raw_id |-> "", session_id |-> "",
     user_text |-> "",
     now |-> 0, hits |-> <<>>, ref |-> 0, sliced |-> <<>>, item |-> NoTurn,
     img_size |-> 0, mime |-> "",
     ret |-> "", model |-> "", payload |-> <<>>, status |-> 0, reply |-> "",
     connected |-> FALSE, events |-> <<>>, full |-> <<>>, consumed |-> 0,
     old |-> <<>>, disturbed |-> FALSE, touched |-> FALSE, called |-> FALSE,
     send_failed |-> FALSE, reset_in_wait |-> FALSE]
\* connected .. consumed: the websocket of ws_chat is open, the events sent
\* on it, the list full, the stream lines read.  old .. reset_in_wait are
\* history: the list before the append, an interfering trim or reset, the
\* request has looked memory up, the upstream was called, a send on the
\* closed websocket has failed, a reset popped the key during the wait.

\* history: mark the requests in flight on key k as disturbed
Disturb(th, k) ==
    [t \in Threads |->
        IF th[t].pc # "idle" /\ th[t].session_id = k
        THEN [th[t] EXCEPT !.disturbed = TRUE] ELSE th[t]]

\* history: mark the requests on key k that wait for the upstream reply
PoppedInWait(th, k) ==
    [t \in Threads |->
        IF th[t].pc = "wait" /\ th[t].session_id = k
        THEN [th[t] EXCEPT !.reset_in_wait = TRUE] ELSE th[t]]

\* the admissions of a log still inside the window at time now
InWindow(log, now) == SelectSeq(log, LAMBDA x : now - x < WINDOW)
\* history logs stop growing one past MAX_REQ
Logged(log, now) ==
    IF Len(log) > MAX_REQ \/ ~(clock - now < WINDOW) THEN log ELSE Append(log, now)

\* line 25: the name used when the environment sets none
DefaultVisionModel == "llama-3.2-vision-preview"
\* line 22
MODEL_TEXT == "llama-3.3-70b-versatile"

\* lines 19-45, whatever MODEL_VISION the environment gives
Loaded ==
    /\ GROQ_API_KEY \in BOOLEAN
    /\ memory = <<>>
    /\ heap = <<>>
    /\ rate_limit = <<>>
    /\ clock = 0
    /\ thr = [t \in Threads |-> Idle]
    /\ admitted = [k \in Keys |-> <<>>]
    /\ sinceReset = [k \in Keys |-> <<>>]
    /\ lastOp = [k \in Keys |-> "none"]

\* ws.send() of the last event of an exchange, then return.  On a websocket
\* the client has left ws.send raises ConnectionClosed: nothing is sent, and
\* the exception leaves the handler (from the except clause of line 334 too).
WsEnd(r, type, tag) ==
    IF r.connected
    THEN [r EXCEPT !.pc = "done", !.reply = tag,
                   !.events = Append(@, Event(type, ""))]
    ELSE [r EXCEPT !.pc = "done", !.reply = "closed"]

\* the deployment that leaves MODEL_VISION to its default
Init == MODEL_VISION = DefaultVisionModel /\ Loaded
\* the deployment whose environment sets MODEL_VISION to the empty string
NoVisionInit == MODEL_VISION = "" /\ Loaded

\* time passes (time.time() is taken as non-decreasing, in whole ticks)
Tick ==
    /\ clock < MaxTime
    /\ clock' = clock + 1
    /\ admitted' = [k \in Keys |-> InWindow(admitted[k], clock + 1)]
    /\ sinceReset' = [k \in Keys |-> InWindow(sinceReset[k], clock + 1)]
    /\ UNCHANGED <<GROQ_API_KEY, MODEL_VISION, memory, heap, rate_limit, thr, lastOp>>

\* ---------------------------------------------------------------- chat()
\* lines 145-153: credential, request fields, empty message
ChatBegin(t, message, sid) ==
    /\ thr[t].pc = "idle"
    /\ thr' = [thr EXCEPT ![t] =
        IF ~GROQ_API_KEY
        THEN [Idle EXCEPT !.pc = "done", !.handler = "chat",
                          !.status = 500, !.reply = "missing_credential"]
        ELSE IF Strip(message) = ""
        THEN [Idle EXCEPT !.pc = "done", !.handler = "chat", !.raw_id = sid,
                          !.session_id = SessionIdOrDefault(sid),
                          !.status = 400, !.reply = "empty_input"]
        ELSE [Idle EXCEPT !.pc = "rate_read", !.handler = "chat", !.raw_id = sid,
                          !.session_id = SessionIdOrDefault(sid),
                          !.user_text = Strip(message),
                          !.item = UserTurn(Strip(message)),
                          !.ret = "call"]]
    /\ UNCHANGED <<GROQ_API_KEY, MODEL_VISION, memory, heap, rate_limit, clock,
                   admitted, sinceReset, lastOp>>

\* ---------------------------------------------------------------- _apply_rate_limit
\* lines 68-70: now, the stored hits, the purge
RateRead(t) ==
    /\ thr[t].pc = "rate_read"
    /\ thr' = [thr EXCEPT ![t].pc = "rate_write",
                          ![t].now = clock,
                          ![t].hits = PurgedHits(DictGet(rate_limit, thr[t].session_id), clock)]
    /\ UNCHANGED <<GROQ_API_KEY, MODEL_VISION, memory, heap, rate_limit, clock,
                   admitted, sinceReset, lastOp>>

\* lines 71-75 and the caller's 429 (ws_chat: its error event, line 302):
\* deny, or record now and admit
RateWrite(t, rec) ==
    /\ thr[t].pc = "rate_write"
    /\ LET k == thr[t].session_id IN
        IF RateDenied(thr[t].hits)
        THEN /\ thr' = [thr EXCEPT ![t] =
                    IF thr[t].handler = "ws_chat"
                    THEN WsEnd([@ EXCEPT !.hits = <<>>, !.now = 0],
                               "error", "rate_limited")
                    ELSE [@ EXCEPT !.pc = "done", !.status = 429,
                                   !.reply = "rate_limited", !.hits = <<>>,
                                   !.now = 0]]
             /\ UNCHANGED <<rate_limit, admitted, sinceReset>>
        ELSE /\ rate_limit' = DictSet(rate_limit, k, Append(thr[t].hits, thr[t].now))
             /\ thr' = [thr EXCEPT ![t].pc =
                            IF thr[t].handler = "chat_image" THEN ImageStages[1]
                            ELSE "append_get",
                                   ![t].hits = <<>>, ![t].now = 0]
             /\ admitted' = IF rec THEN [admitted EXCEPT ![k] = Logged(@, thr[t].now)]
                            ELSE admitted
             /\ sinceReset' = [sinceReset EXCEPT ![k] = Logged(@, thr[t].now)]
    /\ UNCHANGED <<GROQ_API_KEY, MODEL_VISION, memory, heap, clock, lastOp>>

\* ---------------------------------------------------------------- _append_user / _append_assistant
\* line 83 / 88, first half: memory[session_id]
AppendGet(t, rec) ==
    /\ thr[t].pc = "append_get"
    /\ LET g == MemGet(memory, heap, thr[t].session_id) IN
        Store(g.memory,
              [thr EXCEPT ![t].pc = "append_do", ![t].ref = g.id,
                          ![t].touched = TRUE,
                          ![t].old = IF rec THEN <<g.heap[g.id]>> ELSE <<>>],
              g.heap)
    /\ UNCHANGED <<GROQ_API_KEY, MODEL_VISION, rate_limit, clock, admitted, sinceReset, lastOp>>

\* line 83 / 88, second half: .append(turn) on the list looked up
AppendDo(t) ==
    /\ thr[t].pc = "append_do"
    /\ Store(memory,
             [thr EXCEPT ![t].pc = "trim_get", ![t].ref = 0],
             [heap EXCEPT ![thr[t].ref] = Append(@, thr[t].item)])
    /\ UNCHANGED <<GROQ_API_KEY, MODEL_VISION, rate_limit, clock, admitted, sinceReset, lastOp>>

\* ---------------------------------------------------------------- _trim_history
\* line 79, right-hand side: memory[session_id]
TrimGet(t) ==
    /\ thr[t].pc = "trim_get"
    /\ LET g == MemGet(memory, heap, thr[t].session_id) IN
        Store(g.memory, [thr EXCEPT ![t].pc = "trim_slice", ![t].ref = g.id], g.heap)
    /\ UNCHANGED <<GROQ_API_KEY, MODEL_VISION, rate_limit, clock, admitted, sinceReset, lastOp>>

\* line 79, right-hand side: [-MAX_TURNS:] makes a new list
TrimSlice(t) ==
    /\ thr[t].pc = "trim_slice"
    /\ LET l == heap[thr[t].ref]
           th == IF Len(TrimmedList(l)) < Len(l)
                 THEN Disturb(thr, thr[t].session_id) ELSE thr
       IN Store(memory,
                [th EXCEPT ![t].pc = "trim_store", ![t].ref = 0,
                           ![t].sliced = TrimmedList(l),
                           ![t].disturbed = thr[t].disturbed],
                heap)
    /\ UNCHANGED <<GROQ_API_KEY, MODEL_VISION, rate_limit, clock, admitted, sinceReset, lastOp>>

\* line 79, the assignment: memory[session_id] = the new list
TrimStore(t) ==
    /\ thr[t].pc = "trim_store"
    /\ Store(DictSet(memory, thr[t].session_id, Len(heap) + 1),
             [thr EXCEPT ![t].pc = thr[t].ret, ![t].sliced = <<>>],
             Append(heap, thr[t].sliced))
    /\ UNCHANGED <<GROQ_API_KEY, MODEL_VISION, rate_limit, clock, admitted, sinceReset, lastOp>>

\* ---------------------------------------------------------------- the upstream round trip
\* lines 160-175 (chat), 233-260 (chat_image), 305-319 (ws_chat): build the
\* payload, send it
Call(t) ==
    /\ thr[t].pc = "call"
    /\ LET g == MemGet(memory, heap, thr[t].session_id) IN
        Store(g.memory,
              [thr EXCEPT ![t].pc = IF thr[t].handler = "ws_chat" THEN "relay"
                                        ELSE "wait",
                          ![t].old = <<>>, ![t].touched = TRUE, ![t].called = TRUE,
                          ![t].model = IF thr[t].handler = "chat_image"
                                       THEN MODEL_VISION ELSE MODEL_TEXT,
                          ![t].payload =
                              IF thr[t].handler = "chat_image"
                              THEN ImageMessages(g.heap[g.id], thr[t].user_text)
                              ELSE ChatMessages(g.heap[g.id])],
              g.heap)
    /\ UNCHANGED <<GROQ_API_KEY, MODEL_VISION, rate_limit, clock, admitted, sinceReset, lastOp>>

\* the HTTP status of the reply to an upstream outcome
\* chat: 504 on requests.Timeout (line 177), 502 otherwise (lines 179-193);
\* chat_image: 502 for every failure (lines 267, 272)
FailureStatus(handler, outcome) ==
    IF handler = "chat" /\ outcome = "timeout" THEN 504 ELSE 502

AppendsAssistant_Always(outcome) == TRUE
\* _append_assistant is reached on the success path only (lines 195, 274)
AppendsAssistant(outcome) == outcome = "ok"

StoredReply_Empty(reply) == AssistantTurn("")
\* the turn _append_assistant stores: the reply handed to the caller
StoredReply(reply) == AssistantTurn(reply)

\* lines 169-196 (chat), 254-275 (chat_image): the upstream answers
Answer(t, outcome, reply) ==
    /\ thr[t].pc = "wait"
    /\ thr' = [thr EXCEPT
          ![t].payload = <<>>, ![t].model = "",
          ![t].status = IF outcome = "ok" THEN 200
                        ELSE FailureStatus(thr[t].handler, outcome),
          ![t].reply = IF outcome = "ok" THEN reply ELSE outcome,
          ![t].item = IF AppendsAssistant(outcome) THEN StoredReply(reply)
                      ELSE thr[t].item,
          ![t].ret = "done",
          ![t].pc = IF AppendsAssistant(outcome) THEN "append_get" ELSE "done"]
    /\ UNCHANGED <<GROQ_API_KEY, MODEL_VISION, memory, heap, rate_limit, clock,
                   admitted, sinceReset, lastOp>>

\* ---------------------------------------------------------------- chat_image()
\* lines 201-209: credential, the uploaded file, the form fields
ImageBegin(t, message, sid, has_image, size, mime) ==
    /\ thr[t].pc = "idle"
    /\ thr' = [thr EXCEPT ![t] =
        IF ~GROQ_API_KEY
        THEN [Idle EXCEPT !.pc = "done", !.handler = "chat_image",
                          !.status = 500, !.reply = "missing_credential"]
        ELSE IF ~has_image
        THEN [Idle EXCEPT !.pc = "done", !.handler = "chat_image",
                          !.status = 400, !.reply = "no_image"]
        ELSE [Idle EXCEPT !.pc = "rate_read", !.handler = "chat_image", !.raw_id = sid,
                          !.session_id = SessionIdOrDefault(sid),
                          !.user_text = Strip(message),
                          !.item = UserTurn(ImageText(Strip(message))),
                          !.ret = StageAfter("append_get"),
                          !.img_size = size, !.mime = mime]]
    /\ UNCHANGED <<GROQ_API_KEY, MODEL_VISION, memory, heap, rate_limit, clock,
                   admitted, sinceReset, lastOp>>

\* lines 215-228: size limit, type allow-list, then the text goes to memory
ImageCheck(t) ==
    /\ thr[t].pc = "image_check"
    /\ thr' = [thr EXCEPT ![t] =
        IF TooLarge(thr[t].img_size)
        THEN [@ EXCEPT !.pc = "done", !.status = 413, !.reply = "payload_too_large",
                       !.img_size = 0, !.mime = ""]
        ELSE IF Unsupported(thr[t].mime)
        THEN [@ EXCEPT !.pc = "done", !.status = 400, !.reply = "unsupported_media_type",
                       !.img_size = 0, !.mime = ""]
        ELSE [@ EXCEPT !.pc = StageAfter("image_check"), !.img_size = 0, !.mime = ""]]
    /\ UNCHANGED <<GROQ_API_KEY, MODEL_VISION, memory, heap, rate_limit, clock,
                   admitted, sinceReset, lastOp>>

\* ---------------------------------------------------------------- ws_chat()
\* lines 281-299: credential, the first frame, its fields, empty message
WsBegin(t, frame, message, sid) ==
    /\ thr[t].pc = "idle"
    /\ LET ws == [Idle EXCEPT !.handler = "ws_chat", !.connected = TRUE] IN
       thr' = [thr EXCEPT ![t] =
        IF ~GROQ_API_KEY
        THEN WsEnd(ws, "error", "missing_credential")
        ELSE CASE frame = "closed" ->
                    \* receive raises, and so does the send of line 291
                    WsEnd([ws EXCEPT !.connected = FALSE], "error", "invalid_payload")
               [] frame = "empty" ->
                    \* line 288: return, nothing sent
                    [ws EXCEPT !.pc = "done", !.reply = "no_frame"]
               [] frame = "invalid_json" ->
                    WsEnd(ws, "error", "invalid_payload")
               [] frame = "not_object" ->
                    \* line 294: obj.get raises AttributeError, nothing catches it
                    [ws EXCEPT !.pc = "done", !.reply = "fault"]
               [] OTHER ->
                    IF Strip(message) = ""
                    THEN WsEnd([ws EXCEPT !.raw_id = sid,
                                          !.session_id = SessionIdOrDefault(sid)],
                               "error", "empty_input")
                    ELSE [ws EXCEPT !.pc = "rate_read", !.raw_id = sid,
                                    !.session_id = SessionIdOrDefault(sid),
                                    !.user_text = Strip(message),
                                    !.item = UserTurn(Strip(message)),
                                    !.ret = "call"]]
    /\ UNCHANGED <<GROQ_API_KEY, MODEL_VISION, memory, heap, rate_limit, clock,
                   admitted, sinceReset, lastOp>>

\* the client closes the websocket while its request is being served
Disconnect(t) ==
    /\ thr[t].handler = "ws_chat"
    /\ thr[t].pc \notin {"idle", "done"}
    /\ thr[t].connected
    /\ thr' = [thr EXCEPT ![t].connected = FALSE]
    /\ UNCHANGED <<GROQ_API_KEY, MODEL_VISION, memory, heap, rate_limit, clock,
                   admitted, sinceReset, lastOp>>

\* lines 319-327, one turn of the loop: a line of the stream; a delta that
\* is not empty goes to full and to the client.  A send that raises is
\* caught by the inner except (line 326) and the loop goes on.
StreamChunk(t, chunk) ==
    /\ thr[t].pc = "relay"
    /\ thr[t].consumed < MaxChunks
    /\ LET delta == DeltaOf(chunk) IN
       thr' = [thr EXCEPT
          ![t].consumed = @ + 1,
          ![t].full = IF delta # "" THEN Append(@, delta) ELSE @,
          ![t].events = IF delta # "" /\ thr[t].connected
                        THEN Append(@, Event("token", delta)) ELSE @,
          ![t].send_failed = @ \/ (delta # "" /\ ~thr[t].connected)]
    /\ UNCHANGED <<GROQ_API_KEY, MODEL_VISION, memory, heap, rate_limit, clock,
                   admitted, sinceReset, lastOp>>

\* lines 101-109, 334-335: the upstream request or the stream raises (HTTP
\* error status, timeout, connection lost); the outer except sends error
StreamFail(t) ==
    /\ thr[t].pc = "relay"
    /\ thr' = [thr EXCEPT ![t] =
          WsEnd([@ EXCEPT !.payload = <<>>, !.model = "", !.consumed = 0],
                "error", "stream_error")]
    /\ UNCHANGED <<GROQ_API_KEY, MODEL_VISION, memory, heap, rate_limit, clock,
                   admitted, sinceReset, lastOp>>

\* lines 114-115, 329-331: [DONE] or the end of the stream; the reply is
\* stored when it is not empty
StreamEnd(t) ==
    /\ thr[t].pc = "relay"
    /\ thr' = [thr EXCEPT
          ![t].payload = <<>>, ![t].model = "", ![t].consumed = 0,
          ![t].item = IF JoinedReply(thr[t].full) # ""
                      THEN AssistantTurn(JoinedReply(thr[t].full)) ELSE thr[t].item,
          ![t].ret = "ws_done",
          ![t].pc = IF JoinedReply(thr[t].full) # "" THEN "append_get" ELSE "ws_done"]
    /\ UNCHANGED <<GROQ_API_KEY, MODEL_VISION, memory, heap, rate_limit, clock,
                   admitted, sinceReset, lastOp>>

\* line 333: ws.send(done)
WsDone(t) ==
    /\ thr[t].pc = "ws_done"
    /\ thr' = [thr EXCEPT ![t] = WsEnd(@, "done", "done")]
    /\ UNCHANGED <<GROQ_API_KEY, MODEL_VISION, memory, heap, rate_limit, clock,
                   admitted, sinceReset, lastOp>>

\* ---------------------------------------------------------------- reset()
\* lines 130-133: the session_id field, 400 when it is empty
ResetBegin(t, sid) ==
    /\ thr[t].pc = "idle"
    /\ thr' = [thr EXCEPT ![t] =
        IF Strip(sid) = ""
        THEN [Idle EXCEPT !.pc = "done", !.handler = "reset",
                          !.status = 400, !.reply = "session_id mancante"]
        ELSE [Idle EXCEPT !.pc = "reset_memory", !.handler = "reset", !.raw_id = sid,
                          !.session_id = Strip(sid)]]
    /\ UNCHANGED <<GROQ_API_KEY, MODEL_VISION, memory, heap, rate_limit, clock,
                   admitted, sinceReset, lastOp>>

ResetPopsRateLimit_Not == FALSE
\* the dictionaries reset() pops (lines 135, 136)
ResetPopsMemory == TRUE
ResetPopsRateLimit == TRUE

\* line 135: memory.pop(session_id, None)
ResetMemory(t) ==
    /\ thr[t].pc = "reset_memory"
    /\ LET k == thr[t].session_id
           th == IF k \in DOMAIN memory THEN Disturb(PoppedInWait(thr, k), k)
                 ELSE PoppedInWait(thr, k)
       IN Store(IF ResetPopsMemory THEN DictPop(memory, k) ELSE memory,
                [th EXCEPT ![t].pc = "reset_rate"], heap)
    /\ UNCHANGED <<GROQ_API_KEY, MODEL_VISION, rate_limit, clock, admitted, sinceReset, lastOp>>

\* lines 136-137: rate_limit.pop(session_id, None), then 200
ResetRate(t, rec) ==
    /\ thr[t].pc = "reset_rate"
    /\ LET k == thr[t].session_id IN
        /\ rate_limit' = IF ResetPopsRateLimit THEN DictPop(rate_limit, k) ELSE rate_limit
        /\ sinceReset' = [sinceReset EXCEPT ![k] = <<>>]
        /\ lastOp' = IF rec THEN [lastOp EXCEPT ![k] = "reset"] ELSE lastOp
    /\ thr' = [thr EXCEPT ![t].pc = "done", ![t].status = 200, ![t].reply = "ok"]
    /\ UNCHANGED <<GROQ_API_KEY, MODEL_VISION, memory, heap, clock, admitted>>

\* replies of the requests turned away before the rate limiter
BeforeLimiter == {"missing_credential", "empty_input", "no_image"}

\* the reply has been sent: the thread is free for the next request
Finish(t, rec) ==
    /\ thr[t].pc = "done"
    /\ thr' = [thr EXCEPT ![t] = Idle]
    /\ lastOp' = IF /\ rec /\ thr[t].handler # "reset"
                    /\ thr[t].session_id \in Keys
                    /\ thr[t].reply \notin BeforeLimiter
                 THEN [lastOp EXCEPT ![thr[t].session_id] = "request"]
                 ELSE lastOp
    /\ UNCHANGED <<GROQ_API_KEY, MODEL_VISION, memory, heap, rate_limit, clock,
                   admitted, sinceReset>>

\* ---------------------------------------------------------------- specifications
\* the steps every request handler is made of
Steps(t, rec) ==
    \/ RateRead(t)
    \/ RateWrite(t, rec)
    \/ AppendGet(t, rec)
    \/ AppendDo(t)
    \/ TrimGet(t)
    \/ TrimSlice(t)
    \/ TrimStore(t)
    \/ Call(t)
    \/ ResetMemory(t)
    \/ ResetRate(t, rec)
    \/ Finish(t, rec)
\* with the answer to the upstream call of chat and chat_image
Body(t, rec) ==
    \/ Steps(t, rec)
    \/ \E outcome \in Outcomes, reply \in Replies : Answer(t, outcome, reply)

\* threads serving /chat and /reset, within one tick
Next ==
    \E t \in Threads :
        \/ \E message \in RawTexts, sid \in RawIds : ChatBegin(t, message, sid)
        \/ \E sid \in RawIds : ResetBegin(t, sid)
        \/ Body(t, FALSE)
Spec == Init /\ [][Next]_vars

\* one server thread: requests are handled one at a time
SeqNext ==
    \/ Tick
    \/ \E message \in RawTexts, sid \in RawIds : ChatBegin(1, message, sid)
    \/ \E message \in RawTexts, sid \in RawIds, has_image \in BOOLEAN,
          size \in ImageSizes, mime \in MimeTypes :
            ImageBegin(1, message, sid, has_image, size, mime)
    \/ ImageCheck(1)
    \/ \E sid \in RawIds : ResetBegin(1, sid)
    \/ Body(1, TRUE)
SeqSpec == Init /\ [][SeqNext]_vars

\* the same thread in the deployment without a vision model name
NoVisionSpec == NoVisionInit /\ [][SeqNext]_vars

\* the steps of ws_chat after its first frame
Stream(t) ==
    \/ \E chunk \in Chunks : StreamChunk(t, chunk)
    \/ StreamFail(t)
    \/ StreamEnd(t)
    \/ WsDone(t)

\* one server thread serving /ws and /reset within one tick, the client
\* free to leave at any moment
WsNext ==
    \/ \E frame \in Frames, message \in RawTexts, sid \in RawIds :
            WsBegin(1, frame, message, sid)
    \/ Disconnect(1)
    \/ Stream(1)
    \/ \E sid \in RawIds : ResetBegin(1, sid)
    \/ Steps(1, TRUE)
WsSpec == Init /\ [][WsNext]_vars

\* one server thread serving /chat, /chat-image, /ws and /reset within one
\* tick, the websocket clients staying to the end of their exchange
AllNext ==
    \/ \E message \in RawTexts, sid \in RawIds : ChatBegin(1, message, sid)
    \/ \E message \in RawTexts, sid \in RawIds, has_image \in BOOLEAN,
          size \in ImageSizes, mime \in MimeTypes :
            ImageBegin(1, message, sid, has_image, size, mime)
    \/ ImageCheck(1)
    \/ \E frame \in Frames \ {"closed"}, message \in RawTexts, sid \in RawIds :
            WsBegin(1, frame, message, sid)
    \/ Stream(1)
    \/ \E sid \in RawIds : ResetBegin(1, sid)
    \/ Body(1, TRUE)
AllSpec == Init /\ [][AllNext]_vars

\* ---------------------------------------------------------------- properties
Last(l) == l[Len(l)]
InChat(t) == thr[t].handler \in {"chat", "chat_image"}
Failures == Outcomes \ {"ok"}
\* the user turn a request puts into memory
OwnUserTurn(t) ==
    IF thr[t].handler = "chat_image" THEN UserTurn(ImageText(thr[t].user_text))
    ELSE UserTurn(thr[t].user_text)
\* an append (with its trim) has just returned in thread t
JustAppended(t) == thr[t].old # <<>> /\ thr[t].pc \in {"call", "done"}

\* C1: whatever appends (each with its trim) have run, a stored history
\* holds at most 2*MAX_TURNS + 1 entries.
C1_HistoryCap == \A k \in Keys : Len(History(k)) <= 2 * MAX_TURNS + 1
\* an append onto a full history has returned: the trim discarded an entry
C1_Witness ==
    \E t \in Threads : JustAppended(t) /\ Len(thr[t].old[1]) = MAX_TURNS
                       /\ Len(History(thr[t].session_id)) = MAX_TURNS

\* C2 as stated: the entry at index 0 of a stored, non-empty history has
\* role system.
C2_SystemFirstStored ==
    \A k \in Keys : Len(History(k)) > 0 => History(k)[1].role = "system"
\* C2 as amended: a stored history holds user and assistant entries only;
\* the system entry is index 0 of the message list sent upstream, and the
\* only system entry of that list.
C2_SystemFirstSent ==
    /\ \A k \in Keys : \A i \in 1..Len(History(k)) :
            History(k)[i].role \in {"user", "assistant"}
    /\ \A t \in Threads : thr[t].pc = "wait" =>
            /\ thr[t].payload[1] = SystemMessage
            /\ \A i \in 2..Len(thr[t].payload) : thr[t].payload[i].role # "system"
\* a payload is out after trimming left an assistant entry at index 0
C2_Witness ==
    \E t \in Threads :
        /\ thr[t].pc = "wait"
        /\ Len(History(thr[t].session_id)) = MAX_TURNS
        /\ History(thr[t].session_id)[1].role = "assistant"

\* C3 as stated: after an append the history is the last 2*MAX_TURNS entries
\* of (the old entries followed by the new turn), in the same order.
C3_KeepsTwiceMaxTurns ==
    \A t \in Threads : JustAppended(t) =>
        LET full == thr[t].old[1] \o <<thr[t].item>>
            h == History(thr[t].session_id)
        IN /\ Len(h) = Min(Len(full), 2 * MAX_TURNS)
           /\ \A i \in 1..Len(h) : h[i] = full[Len(full) - Len(h) + i]
\* C3 as amended: after an append the history is the last MAX_TURNS entries
\* of (the old entries followed by the new turn), in the same order.
C3_KeepsMaxTurns ==
    \A t \in Threads : JustAppended(t) =>
        LET full == thr[t].old[1] \o <<thr[t].item>>
            h == History(thr[t].session_id)
        IN /\ Len(h) = Min(Len(full), MAX_TURNS)
           /\ \A i \in 1..Len(h) : h[i] = full[Len(full) - Len(h) + i]
\* an assistant turn was appended to a full history
C3_Witness ==
    \E t \in Threads : /\ JustAppended(t)
                       /\ thr[t].pc = "done"
                       /\ Len(thr[t].old[1]) = MAX_TURNS

\* C4: the admission check made at time now denies exactly when at least
\* MAX_REQ stored timestamps t of the key have now - t < WINDOW; a denial
\* leaves rate_limit as it was, an admission stores now as the last
\* timestamp, after the ones still inside the window.
C4_AdmitStep(t) ==
    LET k == thr[t].session_id
        now == thr[t].now
        stored == DictGet(rate_limit, k)
        fresh == {i \in 1..Len(stored) : now - stored[i] < WINDOW}
        denied == thr'[t].status = 429
    IN /\ denied <=> Cardinality(fresh) >= MAX_REQ
       /\ denied => rate_limit' = rate_limit
       /\ ~denied =>
            /\ k \in DOMAIN rate_limit'
            /\ Len(rate_limit'[k]) = Cardinality(fresh) + 1
            /\ Last(rate_limit'[k]) = now
            /\ \A i \in 1..Cardinality(fresh) : now - rate_limit'[k][i] < WINDOW
C4_Admit ==
    [][\A t \in Threads :
         (thr[t].pc = "rate_write" /\ thr'[t].pc # "rate_write") => C4_AdmitStep(t)]_vars
\* a request has been denied
C4_Witness ==
    \E t \in Threads : thr[t].pc = "done" /\ thr[t].status = 429
                       /\ Len(rate_limit[thr[t].session_id]) = MAX_REQ

\* C5 as stated (its conclusion): no WINDOW seconds hold more than MAX_REQ
\* admitted requests of a key.
C5_WindowEver == \A k \in Keys : Len(admitted[k]) <= MAX_REQ
\* C5 as amended: counting from the key's last reset, an attempt is denied
\* exactly when MAX_REQ admissions lie less than WINDOW before it, so the
\* first MAX_REQ attempts of a window are admitted, further ones are denied
\* until the oldest admission is WINDOW old, and no WINDOW seconds hold more
\* than MAX_REQ admissions made since the last reset.
C5_DecisionStep(t) ==
    (thr'[t].status = 429) <=> (Len(sinceReset[thr[t].session_id]) >= MAX_REQ)
C5_WindowSinceReset ==
    /\ [](\A k \in Keys : Len(sinceReset[k]) <= MAX_REQ)
    /\ [][\A t \in Threads :
            (thr[t].pc = "rate_write" /\ thr'[t].pc # "rate_write"
                /\ thr[t].now = clock) => C5_DecisionStep(t)]_vars
\* an attempt made WINDOW or more after the start was admitted as the
\* MAX_REQ-th of its window: the window trails the attempt, every admission
\* in it was made after time 0
C5_Witness ==
    \E t \in Threads :
        LET log == sinceReset[thr[t].session_id] IN
        /\ thr[t].pc = "append_get" /\ thr[t].handler = "chat"
        /\ clock >= WINDOW
        /\ Len(log) = MAX_REQ
        /\ Last(log) = clock
        /\ log[1] > 0

\* C6: two requests of one key that have both finished appending their user
\* turn (no entry dropped by the cap, no reset in between) both have their
\* turn in the stored history.
C6_NoLostUpdate ==
    \A t, u \in Threads :
        (/\ t # u
         /\ thr[t].handler = "chat" /\ thr[u].handler = "chat"
         /\ thr[t].pc \in {"call", "wait"} /\ thr[u].pc \in {"call", "wait"}
         /\ thr[t].session_id = thr[u].session_id
         /\ ~thr[t].disturbed /\ ~thr[u].disturbed)
        => \E i, j \in 1..Len(History(thr[t].session_id)) :
              /\ i # j
              /\ History(thr[t].session_id)[i] = OwnUserTurn(t)
              /\ History(thr[t].session_id)[j] = OwnUserTurn(u)

\* C7: under concurrent admission checks of one key, no more than MAX_REQ
\* requests are admitted within WINDOW seconds, and once no check is under
\* way every admission of the window is among the stored timestamps.
C7_ExclusiveAdmission ==
    \A k \in Keys :
        /\ Len(sinceReset[k]) <= MAX_REQ
        /\ (\A t \in Threads : thr[t].pc \notin {"rate_write", "reset_rate"})
            => Len(InWindow(DictGet(rate_limit, k), clock)) >= Len(sinceReset[k])

\* C8: a reset of a key answers 200 and leaves the key in neither dictionary,
\* whether or not the key was there (a reset of an absent key changes
\* nothing); the first request after a reset is admitted, and once its user
\* turn is appended the history is that turn alone.
C8_State ==
    \A t \in Threads :
        /\ (thr[t].handler = "reset" /\ thr[t].pc = "done" /\ Strip(thr[t].raw_id) # "")
            => /\ thr[t].status = 200
               /\ thr[t].session_id \notin DOMAIN memory
               /\ thr[t].session_id \notin DOMAIN rate_limit
        /\ (InChat(t) /\ thr[t].session_id \in Keys /\ lastOp[thr[t].session_id] = "reset")
            => /\ thr[t].status # 429
               /\ thr[t].pc \in {"call", "wait"}
                    => History(thr[t].session_id) = <<OwnUserTurn(t)>>
C8_ResetStep(t) ==
    (/\ thr[t].pc \in {"reset_memory", "reset_rate"}
     /\ thr[t].session_id \notin DOMAIN memory
     /\ thr[t].session_id \notin DOMAIN rate_limit)
    => /\ memory' = memory /\ heap' = heap /\ rate_limit' = rate_limit
       /\ thr'[t].pc = "done" => thr'[t].status = 200
C8_Reset == []C8_State /\ [][\A t \in Threads : C8_ResetStep(t)]_vars
\* the first request after the reset of a rate-limited key is waiting for
\* the upstream: it was admitted as one more than MAX_REQ in the window
C8_Witness ==
    \E t \in Threads :
        /\ InChat(t) /\ thr[t].pc = "wait"
        /\ lastOp[thr[t].session_id] = "reset"
        /\ Len(admitted[thr[t].session_id]) > MAX_REQ

\* C9: a chat or chat_image request whose upstream call failed answers with
\* an error status, and the last entry of the history is its user turn.
C9_FailureKeepsUserTurn ==
    \A t \in Threads :
        (InChat(t) /\ thr[t].pc = "done" /\ thr[t].reply \in Failures)
        => /\ thr[t].status \in {502, 504}
           /\ Len(History(thr[t].session_id)) > 0
           /\ Last(History(thr[t].session_id)) = OwnUserTurn(t)
\* an image request without text failed upstream, on a history that had
\* entries before
C9_Witness ==
    \E t \in Threads :
        /\ thr[t].handler = "chat_image" /\ thr[t].pc = "done"
        /\ thr[t].reply = "http_error" /\ thr[t].user_text = ""
        /\ Len(History(thr[t].session_id)) = MAX_TURNS

\* a chat request without session_id has succeeded on a key no request had
\* touched since the start or the last reset
C10_Case(t) ==
    /\ thr[t].handler = "chat" /\ thr[t].pc = "done" /\ thr[t].status = 200
    /\ Strip(thr[t].raw_id) = ""
    /\ lastOp["default"] \in {"none", "reset"}
\* C10 as stated: such a request uses the key "default" and leaves the three
\* entries system, user, assistant, the assistant entry being the reply.
C10_ThreeEntries ==
    \A t \in Threads : C10_Case(t) =>
        /\ thr[t].session_id = "default"
        /\ Len(History("default")) = 3
        /\ History("default")[1].role = "system"
        /\ History("default")[2] = UserTurn(thr[t].user_text)
        /\ History("default")[3] = AssistantTurn(thr[t].reply)
\* C10 as amended: such a request uses the key "default" and leaves the two
\* entries user, assistant, the assistant entry being the reply.
C10_TwoEntries ==
    \A t \in Threads : C10_Case(t) =>
        /\ thr[t].session_id = "default"
        /\ History("default") = <<UserTurn(thr[t].user_text), AssistantTurn(thr[t].reply)>>
C10_Witness == \E t \in Threads : C10_Case(t) /\ lastOp["default"] = "reset"

\* ---------------------------------------------------------------- the websocket
InWs(t) == thr[t].handler = "ws_chat"
\* the exchange of thread t is over, its client still there to have heard
\* the last of it
Ended(t) == InWs(t) /\ thr[t].pc = "done" /\ thr[t].connected
Terminal(e) == e.type \in {"done", "error"}

\* C11: the events of an exchange are token events followed by exactly one
\* terminal event (done or error); nothing follows the terminal event, and
\* no exchange ends without one.
C11_TokensThenTerminal ==
    \A t \in Threads : InWs(t) =>
        /\ \A i \in 1..(Len(thr[t].events) - 1) : thr[t].events[i].type = "token"
        /\ thr[t].pc # "done" =>
              \A i \in 1..Len(thr[t].events) : thr[t].events[i].type = "token"
        /\ Ended(t) => thr[t].events # <<>> /\ Terminal(Last(thr[t].events))

\* the upstream stream of thread t's exchange has failed, the error event sent
StreamFailed(t) == InWs(t) /\ thr[t].pc = "done" /\ thr[t].reply = "stream_error"

\* C12: when the upstream stream fails after a delta was relayed as a token
\* event, the text accumulated so far is stored as an assistant turn; when
\* it fails before any delta, no assistant turn is stored.
C12_PartialReplyStored ==
    \A t \in Threads : StreamFailed(t) =>
        LET h == History(thr[t].session_id) IN
        /\ h # <<>>
        /\ TokensOf(thr[t].events) # <<>> /\ JoinedReply(thr[t].full) # "" =>
              Last(h) = AssistantTurn(JoinedReply(thr[t].full))
        /\ TokensOf(thr[t].events) = <<>> => Last(h) = OwnUserTurn(t)

\* C13: once a send to the client has failed because the websocket is
\* closed, the relay loop reads no further line of the upstream stream.
C13_StopsOnDisconnect ==
    [][\A t \in Threads :
          InWs(t) /\ thr[t].pc = "relay" /\ thr[t].send_failed =>
              ~(thr'[t].pc = "relay" /\ thr'[t].consumed > thr[t].consumed)]_vars

\* ---------------------------------------------------------------- the vision model
\* C14: in a deployment without a vision model name, a request that carries
\* an image is never sent upstream, and its reply is none of the upstream's.
C14_NoVisionNoUpstream ==
    MODEL_VISION = "" =>
        \A t \in Threads : thr[t].handler = "chat_image" =>
            /\ ~(thr[t].pc = "wait" /\ thr[t].model = "")
            /\ ~thr[t].called
            /\ thr[t].pc = "done" => thr[t].status \notin {200, 502}

\* ---------------------------------------------------------------- errors
\* how a request that did not succeed can end
ErrorReplies ==
    (Outcomes \ {"ok"}) \cup
    {"missing_credential", "empty_input", "no_image", "rate_limited",
     "payload_too_large", "unsupported_media_type", "invalid_payload",
     "stream_error", "no_frame", "fault"}

\* C15: every request that ends in an error tells its caller: an HTTP reply
\* with an error status, or an error event as the last event on the
\* websocket; no handler ends in an exception nothing has caught.
C15_ErrorsAnswered ==
    \A t \in Threads :
        thr[t].pc = "done" /\ thr[t].handler # "reset" /\ thr[t].reply \in ErrorReplies =>
            /\ thr[t].reply # "fault"
            /\ InChat(t) => thr[t].status \in {400, 413, 429, 500, 502, 504}
            /\ Ended(t) => thr[t].events # <<>> /\ Last(thr[t].events).type = "error"

\* ---------------------------------------------------------------- the payload
\* C16: with requests handled one at a time, the message list of every
\* upstream call is one system message, at the front, followed by the
\* stored history (at most MAX_TURNS entries, in stored order), whose last
\* entry is the request's own user turn; in an image request that last
\* message carries the text together with the image.
C16_PayloadShape ==
    \A t \in Threads : thr[t].payload # <<>> =>
        LET p == thr[t].payload
            h == History(thr[t].session_id)
        IN /\ p[1] = SystemMessage
           /\ \A i \in 2..Len(p) : p[i].role # "system"
           /\ h # <<>> /\ Len(h) <= MAX_TURNS /\ Last(h) = OwnUserTurn(t)
           /\ Len(p) = Len(h) + 1
           /\ \A i \in 1..(Len(h) - 1) : p[i + 1] = Message(h[i].role, h[i].content, FALSE)
           /\ Last(p) = Message("user", OwnUserTurn(t).content,
                                thr[t].handler = "chat_image")
\* an image request is at the upstream with a full history: an assistant
\* turn of an earlier exchange, then its own text
C16_Witness ==
    \E t \in Threads :
        /\ thr[t].handler = "chat_image" /\ thr[t].pc = "wait"
        /\ Len(thr[t].payload) = MAX_TURNS + 1
        /\ thr[t].payload[2].role = "assistant"
        /\ Last(thr[t].payload).image

\* ---------------------------------------------------------------- rejections
\* replies of the requests turned away before the upstream step
Rejections ==
    {"missing_credential", "empty_input", "rate_limited",
     "payload_too_large", "unsupported_media_type"}
Rejected(t) ==
    thr[t].handler # "reset" /\ thr[t].pc = "done" /\ thr[t].reply \in Rejections

\* C17: a request turned away before the upstream step has made no upstream
\* call and has not come to the session store; and no step of a request
\* that has not come to the store changes any stored history.
C17_RejectedLeavesHistory ==
    /\ [](\A t \in Threads : Rejected(t) => ~thr[t].touched /\ ~thr[t].called)
    /\ [][(\A t \in Threads : thr'[t].handler # "reset" /\ ~thr'[t].touched)
            => memory' = memory /\ heap' = heap]_vars
\* an image too large has been turned away on a key that has a history
C17_Witness ==
    \E t \in Threads :
        /\ Rejected(t) /\ thr[t].handler = "chat_image"
        /\ thr[t].reply = "payload_too_large"
        /\ History(thr[t].session_id) # <<>>

\* ---------------------------------------------------------------- the rate window
\* _apply_rate_limit returns in this step of thread t
AdmitReturns(t) == thr[t].pc = "rate_write" /\ thr'[t].pc # "rate_write"

\* C18: with admission checks run one at a time, a stored rate window never
\* holds more than MAX_REQ timestamps, and when _apply_rate_limit returns,
\* admitting or denying, every timestamp stored for its key is less than
\* WINDOW older than the call's now; a denying call stores nothing.
C18_WindowFresh ==
    /\ [](\A k \in DOMAIN rate_limit : Len(rate_limit[k]) <= MAX_REQ)
    /\ [][\A t \in Threads : AdmitReturns(t) =>
            LET k == thr[t].session_id
                stored == DictGet(rate_limit', k)
            IN /\ \A i \in 1..Len(stored) : thr[t].now - stored[i] < WINDOW
               /\ RateDenied(thr[t].hits) => rate_limit' = rate_limit]_vars
\* a request has been denied on a full window whose timestamps are of two
\* different ticks, both before the present one
C18_Witness ==
    \E t \in Threads :
        /\ thr[t].pc = "done" /\ thr[t].reply = "rate_limited"
        /\ Len(DictGet(rate_limit, thr[t].session_id)) = MAX_REQ
        /\ rate_limit[thr[t].session_id][1] < rate_limit[thr[t].session_id][MAX_REQ]
        /\ rate_limit[thr[t].session_id][MAX_REQ] < clock

\* ---------------------------------------------------------------- reset during the wait
\* thread t's chat request has finished after a reset popped its key while
\* it waited for the upstream, and the last reset (thread u's) has finished
\* too, nothing having run since
ResetCrossed(t, u) ==
    /\ thr[t].handler = "chat" /\ thr[t].pc = "done" /\ thr[t].reset_in_wait
    /\ thr[u].handler = "reset" /\ thr[u].pc = "done"
    /\ thr[u].session_id = thr[t].session_id
    /\ \A v \in Threads \ {t, u} : thr[v].pc = "idle"

\* C19: when a reset of a key has interleaved with a request of that key
\* waiting for the upstream reply and both have finished, the history of
\* the key holds no turn of that request.
C19_NoTurnAcrossReset ==
    \A t \in Threads : \A u \in Threads \ {t} :
        ResetCrossed(t, u) => History(thr[t].session_id) = <<>>

\* ---------------------------------------------------------------- done
\* the exchange of thread t has ended with a done event
EndedDone(t) == Ended(t) /\ thr[t].events # <<>> /\ Last(thr[t].events).type = "done"
\* the tokens sent, joined and without the blanks around
SentText(t) == Join(RStrip(LStrip(TokensOf(thr[t].events))))
\* the last entries of the history are the request's user turn and the
\* assistant turn with the text sent
StoredAfterUser(t) ==
    LET h == History(thr[t].session_id) IN
    /\ Len(h) >= 2
    /\ h[Len(h) - 1] = OwnUserTurn(t)
    /\ h[Len(h)] = AssistantTurn(SentText(t))
\* the last entry of the history is the request's user turn
NothingStored(t) ==
    LET h == History(thr[t].session_id) IN h # <<>> /\ Last(h) = OwnUserTurn(t)

\* C20 as stated: after a done event the assistant turn stored is the
\* concatenation, in order and without the blanks around, of the deltas
\* sent as tokens, and nothing is stored when no delta was sent.
C20_DoneStoresTokens ==
    \A t \in Threads : EndedDone(t) =>
        IF TokensOf(thr[t].events) # <<>> THEN StoredAfterUser(t) ELSE NothingStored(t)
\* C20 as amended: after a done event the deltas sent as tokens are those of
\* the list full; when their concatenation without the blanks around is not
\* empty it is the assistant turn stored, and when it is empty (no delta, or
\* blank deltas only) nothing is stored.
C20_DoneStoresText ==
    \A t \in Threads : EndedDone(t) =>
        /\ TokensOf(thr[t].events) = thr[t].full
        /\ IF SentText(t) # "" THEN StoredAfterUser(t) ELSE NothingStored(t)
\* a blank delta and then a delta of text were sent before done
C20_Witness ==
    \E t \in Threads :
        /\ EndedDone(t)
        /\ TokensOf(thr[t].events) = <<" ", "r">>
        /\ StoredAfterUser(t)

====
